---------------------------- MODULE Spec2Model ----------------------------
(***************************************************************************)
(* A model of the raytracing core: the fixed-dimension matrix engine       *)
(* (src/src/core/matrix.rs), the homogeneous transform protocol and the    *)
(* transform builders (src/src/core/transformations.rs, point.rs), vectors *)
(* (vec3.rs), colors (color.rs) and the canvas (canvas.rs).                *)
(*                                                                         *)
(* Numbers.  An f64 is modelled as a pair <<n, d>>:                        *)
(*    d > 0, n # 0, gcd(|n|, d) = 1   the finite non-zero value n/d        *)
(*    <<0, 1>>, <<0, -1>>             +0.0 and -0.0                        *)
(*    <<1, 0>>, <<-1, 0>>             +Inf and -Inf                        *)
(*    <<0, 0>>                        NaN                                  *)
(* The IEEE-754 rules for signs, zeros, infinities and NaN are modelled;   *)
(* rounding, overflow and underflow are not: a finite result is the exact  *)
(* rational.  Every statement below about finite results is therefore a    *)
(* statement up to floating-point rounding.                                *)
(*                                                                         *)
(* Matrices.  A Matrix<R,C> is the record [R, C, rows] of its dimensions   *)
(* and of its rows, a function [0..R-1 -> [0..C-1 -> f64]], so that cell   *)
(* indices are those of the source.                                        *)
(***************************************************************************)
EXTENDS Integers, Sequences, FiniteSets, TLC

VARIABLES
    op,         \* the operation the state is the result of
    lhs,        \* its first matrix operand (self)
    rhs,        \* its second matrix operand
    third,      \* its third matrix operand (a chained product)
    args,       \* its scalar arguments (coordinates, factors, angles)
    inv_rows,   \* Matrix::inverse: the local inv_rows
    p,          \* Matrix::inverse: the pivot index of the for loop
    result,     \* the matrix the operation returned
    pout,       \* the point, vector or colour the operation returned
    canvas,     \* the Canvas: its width, height and pixels
    writes,     \* history: the writes canvas[(x, y)] = c made so far
    cout        \* the colours a canvas read or iteration returned

\* The fields of the canvas part of the state.
cvars == <<canvas, writes, cout>>

vars == <<op, lhs, rhs, third, args, inv_rows, p, result, pout, canvas, writes, cout>>

---------------------------------------------------------------------------
(* Bounds of the model.                                                    *)

\* Entries of the small operands (2x2, 1xN) range over -MaxEntry..MaxEntry.
MaxEntry == 1
\* Entries of the large operands (3x3, pairs, triples) range over 0..MaxPos.
MaxPos == 1
\* Coordinates of points and translation / scaling factors: -MaxCoord..MaxCoord.
MaxCoord == 1
\* The components of a Color range over the halves k/2, |k| <= MaxHalves.
MaxHalves == 3
\* Widths and heights of a canvas, and the coordinates of an access: 0..MaxDim.
MaxDim == 2
\* The number of writes made to a canvas.
MaxWrites == 2

---------------------------------------------------------------------------
(* f64 arithmetic.                                                         *)

Zero == <<0, 1>>
NegZero == <<0, -1>>
One == <<1, 1>>
PosInf == <<1, 0>>
NegInf == <<-1, 0>>
NaN == <<0, 0>>

FromInt(k) == <<k, 1>>

IsNaN(v) == v[1] = 0 /\ v[2] = 0
IsInf(v) == v[1] # 0 /\ v[2] = 0
IsZero(v) == v[1] = 0 /\ v[2] # 0
IsFinite(v) == v[2] # 0

Abs(k) == IF k < 0 THEN -k ELSE k

RECURSIVE GCD(_, _)
GCD(a, b) == IF b = 0 THEN a ELSE GCD(b, a % b)

\* The finite non-zero value n/d (d > 0, n # 0) in lowest terms.
Norm(n, d) == LET g == GCD(Abs(n), d) IN <<n \div g, d \div g>>

\* The sign bit of a value, as 1 or -1.
Sign(v) == IF v[1] = 0 THEN (IF v[2] < 0 THEN -1 ELSE 1)
           ELSE (IF v[1] < 0 THEN -1 ELSE 1)

FNeg(v) == IF IsNaN(v) THEN NaN
           ELSE IF IsZero(v) THEN <<0, -v[2]>>
           ELSE <<-v[1], v[2]>>

FAbs(v) == IF IsNaN(v) THEN NaN
           ELSE IF IsZero(v) THEN Zero
           ELSE <<Abs(v[1]), v[2]>>

FMul(a, b) ==
    LET s == Sign(a) * Sign(b) IN
    IF IsNaN(a) \/ IsNaN(b) THEN NaN
    ELSE IF (IsInf(a) /\ IsZero(b)) \/ (IsZero(a) /\ IsInf(b)) THEN NaN
    ELSE IF IsInf(a) \/ IsInf(b) THEN <<s, 0>>
    ELSE IF IsZero(a) \/ IsZero(b) THEN <<0, s>>
    ELSE Norm(a[1] * b[1], a[2] * b[2])

FDiv(a, b) ==
    LET s == Sign(a) * Sign(b) IN
    IF IsNaN(a) \/ IsNaN(b) THEN NaN
    ELSE IF (IsInf(a) /\ IsInf(b)) \/ (IsZero(a) /\ IsZero(b)) THEN NaN
    ELSE IF IsInf(a) \/ IsZero(b) THEN <<s, 0>>
    ELSE IF IsZero(a) \/ IsInf(b) THEN <<0, s>>
    ELSE Norm(s * Abs(a[1]) * b[2], a[2] * Abs(b[1]))

FAdd(a, b) ==
    IF IsNaN(a) \/ IsNaN(b) THEN NaN
    ELSE IF IsInf(a) /\ IsInf(b) THEN (IF a = b THEN a ELSE NaN)
    ELSE IF IsInf(a) THEN a
    ELSE IF IsInf(b) THEN b
    ELSE IF IsZero(a) /\ IsZero(b) THEN (IF a = NegZero /\ b = NegZero THEN NegZero ELSE Zero)
    ELSE IF IsZero(a) THEN b
    ELSE IF IsZero(b) THEN a
    ELSE LET n == a[1] * b[2] + b[1] * a[2] IN
         IF n = 0 THEN Zero ELSE Norm(n, a[2] * b[2])

FSub(a, b) == FAdd(a, FNeg(b))

\* f64 ==: NaN equals nothing, the two zeros are equal.
FEq(a, b) == /\ ~IsNaN(a)
             /\ ~IsNaN(b)
             /\ (a = b \/ (IsZero(a) /\ IsZero(b)))

\* f64 <=.
FLe(a, b) ==
    /\ ~IsNaN(a)
    /\ ~IsNaN(b)
    /\ IF IsInf(a) THEN (a = NegInf \/ b = PosInf)
       ELSE IF IsInf(b) THEN b = PosInf
       ELSE a[1] * Abs(b[2]) <= b[1] * Abs(a[2])

\* f64::abs_diff_eq of the approx crate: |a - b| <= epsilon.
FAbsDiffEq(a, b, epsilon) == FLe(FAbs(FSub(a, b)), epsilon)

\* Iterator::sum over f64: a left fold of f[0], ..., f[n-1] from -0.0, the
\* additive identity of f64 from which std's impl Sum for f64 starts (an empty
\* sum and a sum of terms that are all -0.0 are -0.0).
RECURSIVE FSum(_, _)
FSum(f, n) == IF n = 0 THEN NegZero ELSE FAdd(FSum(f, n - 1), f[n - 1])

---------------------------------------------------------------------------
(* The matrix engine.                                                      *)

\* A Matrix<R, C> is the record of its type parameters R and C and of its
\* field rows, an array [[f64; C]; R]: a Matrix<0, 3> and a Matrix<3, 0> are
\* different values, with no cell either.
NRows(M) == M.R
NCols(M) == M.C

\* The length of an array [T; N].
ArrayLen(a) == Cardinality(DOMAIN a)

\* A Vec<T> collected from an iterator, as the array it is converted into.
ToArray(seq) == [i \in 0..(Len(seq) - 1) |-> seq[i + 1]]

\* repeat(v).take(n)
RepeatTake(v, n) == [i \in 1..n |-> v]

\* Matrix::<R, C>::new(rows)
new(R, C, rows_) == [R |-> R, C |-> C, rows |-> rows_]

\* A variant of identity that puts the 1 of row r at column T-1-r.
identity_AntiDiagonal(T) ==
    new(T, T, ToArray([r1 \in 1..T |->
        LET r == r1 - 1 IN
        ToArray(RepeatTake(Zero, T - 1 - r) \o <<One>> \o RepeatTake(Zero, r))]))

identity(T) ==
    new(T, T, ToArray([r1 \in 1..T |->
        LET r == r1 - 1 IN
        ToArray(RepeatTake(Zero, r) \o <<One>> \o RepeatTake(Zero, T - 1 - r))]))

\* m.rows(), collected
rows(M) == [r \in 0..(NRows(M) - 1) |-> M.rows[r]]

\* A variant of cols that yields the columns last to first.
cols_Reversed(M) == [c \in 0..(NCols(M) - 1) |->
                        [r \in 0..(NRows(M) - 1) |-> rows(M)[r][NCols(M) - 1 - c]]]

cols(M) == [c \in 0..(NCols(M) - 1) |->
               [r \in 0..(NRows(M) - 1) |-> rows(M)[r][c]]]

transpose(M) == new(NCols(M), NRows(M), cols(M))

\* The first r rows of the array a of rows of length C, flattened row-major
\* into a sequence.
RECURSIVE Flatten(_, _, _)
Flatten(a, r, C) == IF r = 0 THEN <<>>
                    ELSE Flatten(a, r - 1, C) \o [c1 \in 1..C |-> a[r - 1][c1 - 1]]

elements(M) == Flatten(rows(M), NRows(M), NCols(M))

\* A variant of mul whose sum stops one term short.
mul_OffByOne(A, B) ==
    LET rws == rows(A)
        cls == cols(B)
        R == NRows(A)
        N == NCols(A)
        C == NCols(B)
    IN  new(R, C, [r \in 0..(R - 1) |->
              [c \in 0..(C - 1) |->
                  FSum([n \in 0..(N - 2) |-> FMul(rws[r][n], cls[c][n])],
                       IF N = 0 THEN 0 ELSE N - 1)]])

\* A variant of mul that pairs the rows of the left operand with the rows of
\* the right one (square operands).
mul_RhsRows(A, B) ==
    LET rws == rows(A)
        cls == rows(B)
        R == NRows(A)
        N == NCols(A)
        C == NCols(B)
    IN  new(R, C, [r \in 0..(R - 1) |->
              [c \in 0..(C - 1) |->
                  FSum([n \in 0..(N - 1) |-> FMul(rws[r][n], cls[c][n])], N)]])

mul(A, B) ==
    LET rws == rows(A)
        cls == cols(B)
        R == NRows(A)
        N == NCols(A)
        C == NCols(B)
    IN  new(R, C, [r \in 0..(R - 1) |->
              [c \in 0..(C - 1) |->
                  FSum([n \in 0..(N - 1) |-> FMul(rws[r][n], cls[c][n])], N)]])

from(value, R, C) == new(R, C, [r \in 0..(R - 1) |-> [c \in 0..(C - 1) |-> value]])

\* Matrix::default_epsilon: 1e-4.
EpsilonDen == 10000
default_epsilon == <<1, EpsilonDen>>

\* Matrix::abs_diff_eq: all zipped elements are within epsilon.
abs_diff_eq(A, B, epsilon) ==
    LET ea == elements(A)
        eb == elements(B)
        n == IF Len(ea) < Len(eb) THEN Len(ea) ELSE Len(eb)
    IN  \A k \in 1..n : FAbsDiffEq(ea[k], eb[k], epsilon)

\* derive(PartialEq): same cells under f64 ==.
MatEq(A, B) ==
    /\ NRows(A) = NRows(B)
    /\ NCols(A) = NCols(B)
    /\ \A r \in 0..(NRows(A) - 1) : \A c \in 0..(NCols(A) - 1) :
           FEq(A.rows[r][c], B.rows[r][c])

---------------------------------------------------------------------------
(* Matrix<T,T>::inverse: in-place Gauss-Jordan, no row swaps.  Each loop   *)
(* is translated as the sequential in-place loop it is in the source, on   *)
(* the array inv_rows: [[f64; T]; T].                                      *)

\* A variant of NegDivColumn that forgets the negation.
RECURSIVE NegDivColumn_NoNeg(_, _, _, _)
NegDivColumn_NoNeg(M, pv, pivot, j) ==
    IF j >= ArrayLen(M) THEN M
    ELSE NegDivColumn_NoNeg(
             IF j # pv THEN [M EXCEPT ![j][pv] = FDiv(M[j][pv], pivot)] ELSE M,
             pv, pivot, j + 1)

\* for j in 0..T { if j != p { inv_rows[j][p] = -inv_rows[j][p] / pivot } }, from j.
RECURSIVE NegDivColumn(_, _, _, _)
NegDivColumn(M, pv, pivot, j) ==
    IF j >= ArrayLen(M) THEN M
    ELSE NegDivColumn(
             IF j # pv THEN [M EXCEPT ![j][pv] = FDiv(FNeg(M[j][pv]), pivot)] ELSE M,
             pv, pivot, j + 1)

\* for i in 0..T { for j in 0..T { if i != p && j != p {
\*     inv_rows[i][j] += inv_rows[p][j] * inv_rows[i][p] } } }, from the k-th (i, j).
RECURSIVE Eliminate(_, _, _)
Eliminate(M, pv, k) ==
    LET T == ArrayLen(M)
        i == k \div T
        j == k % T
    IN  IF k >= T * T THEN M
        ELSE Eliminate(
                 IF i # pv /\ j # pv
                 THEN [M EXCEPT ![i][j] = FAdd(M[i][j], FMul(M[pv][j], M[i][pv]))]
                 ELSE M,
                 pv, k + 1)

\* for j in 0..T { if j != p { inv_rows[p][j] = inv_rows[p][j] / pivot } }, from j.
RECURSIVE DivPivotRow(_, _, _, _)
DivPivotRow(M, pv, pivot, j) ==
    IF j >= ArrayLen(M) THEN M
    ELSE DivPivotRow(
             IF j # pv THEN [M EXCEPT ![pv][j] = FDiv(M[pv][j], pivot)] ELSE M,
             pv, pivot, j + 1)

\* A variant of PivotStep that divides the pivot row before the elimination.
PivotStep_RowFirst(M, pv) ==
    LET pivot == M[pv][pv]
        s2 == NegDivColumn(M, pv, pivot, 0)
        s3 == DivPivotRow(s2, pv, pivot, 0)
        s4 == Eliminate(s3, pv, 0)
    IN  [s4 EXCEPT ![pv][pv] = FDiv(One, pivot)]

\* A variant of PivotStep that guards against a zero pivot by skipping the step.
PivotStep_Guarded(M, pv) ==
    LET pivot == M[pv][pv]
        s2 == NegDivColumn(M, pv, pivot, 0)
        s3 == Eliminate(s2, pv, 0)
        s4 == DivPivotRow(s3, pv, pivot, 0)
    IN  IF IsZero(pivot) THEN M ELSE [s4 EXCEPT ![pv][pv] = FDiv(One, pivot)]

\* One iteration of `for p in 0..T`.
PivotStep(M, pv) ==
    LET pivot == M[pv][pv]
        s2 == NegDivColumn(M, pv, pivot, 0)
        s3 == Eliminate(s2, pv, 0)
        s4 == DivPivotRow(s3, pv, pivot, 0)
    IN  [s4 EXCEPT ![pv][pv] = FDiv(One, pivot)]

\* A variant of InverseFrom that leaves out the last iteration.
RECURSIVE InverseFrom_SkipLast(_, _)
InverseFrom_SkipLast(M, pv) ==
    IF pv >= ArrayLen(M) - 1 THEN M
    ELSE InverseFrom_SkipLast(PivotStep(M, pv), pv + 1)

\* The iterations pv, pv + 1, ..., T - 1 of the loop.
RECURSIVE InverseFrom(_, _)
InverseFrom(M, pv) == IF pv >= ArrayLen(M) THEN M ELSE InverseFrom(PivotStep(M, pv), pv + 1)

inverse(M) == new(NRows(M), NCols(M), InverseFrom(M.rows, 0))

---------------------------------------------------------------------------
(* Points, the homogeneous transform protocol and the transform builders.  *)
(* A Point(f64, f64, f64) is the tuple <<x, y, z>>.                        *)

\* m[(r, c)] and m[(r, c)] = v on a Matrix: cell (row r, column c).
Index(M, r, c) == M.rows[r][c]
IndexSet(M, r, c, v) == [M EXCEPT !.rows[r][c] = v]

\* impl Into<Matrix<4, 1>> for Point: [[x], [y], [z], [1.0]]
PointInto(pt) ==
    new(4, 1, ToArray(<<ToArray(<<pt[1]>>), ToArray(<<pt[2]>>), ToArray(<<pt[3]>>),
                        ToArray(<<One>>)>>))

\* A variant of PointFrom that divides by the homogeneous coordinate.
PointFrom_Normalized(m) ==
    <<FDiv(Index(m, 0, 0), Index(m, 3, 0)),
      FDiv(Index(m, 1, 0), Index(m, 3, 0)),
      FDiv(Index(m, 2, 0), Index(m, 3, 0))>>

\* impl From<Matrix<4, 1>> for Point
PointFrom(m) == <<Index(m, 0, 0), Index(m, 1, 0), Index(m, 2, 0)>>

\* impl Transform for T: (*transformation_matrix * m).into()
transform(pt, M) == PointFrom(mul(M, PointInto(pt)))

\* derive(PartialEq) on Point
PointEq(a, b) == \A i \in 1..3 : FEq(a[i], b[i])

\* A variant of translate that fills the last row instead of the last column.
translate_LastRow(x, y, z) ==
    LET m0 == identity(4)
        m1 == IndexSet(m0, 3, 0, x)
        m2 == IndexSet(m1, 3, 1, y)
    IN  IndexSet(m2, 3, 2, z)

translate(x, y, z) ==
    LET m0 == identity(4)
        m1 == IndexSet(m0, 0, 3, x)
        m2 == IndexSet(m1, 1, 3, y)
    IN  IndexSet(m2, 2, 3, z)

scale(x, y, z) ==
    LET m0 == identity(4)
        m1 == IndexSet(m0, 0, 0, x)
        m2 == IndexSet(m1, 1, 1, y)
    IN  IndexSet(m2, 2, 2, z)

\* Angles.  An angle is 0.0 or one of four angles of a 3-4-5 triangle, whose
\* cosine and sine are both non-zero; they are numbered 0..4:
\*    0   0.0
\*    1   0.6435011087932844    (0.75_f64.atan())
\*    2   2.498091544796509     (PI - 0.75_f64.atan())
\*    3   -0.9272952180016123   (-(0.6_f64.acos()))
\*    4   0.9272952180016123    (0.6_f64.acos())
\* At each of them cos() and sin() return the f64 nearest to the fraction
\* below (0.8, 0.6 and their negations).  A quarter turn is not among the
\* angles: the cosine of the f64 PI / 2 is not 0.0 but 6.1e-17, a value that
\* no fraction of the model is close to.
Angles == 0..4

\* radians.cos()
Cos(a) == CASE a = 0 -> One
            [] a = 1 -> <<4, 5>>
            [] a = 2 -> <<-4, 5>>
            [] a = 3 -> <<3, 5>>
            [] a = 4 -> <<3, 5>>

\* radians.sin()
Sin(a) == CASE a = 0 -> Zero
            [] a = 1 -> <<3, 5>>
            [] a = 2 -> <<3, 5>>
            [] a = 3 -> <<-4, 5>>
            [] a = 4 -> <<4, 5>>

rotate_x(radians) ==
    LET m0 == identity(4)
        m1 == IndexSet(m0, 1, 1, Cos(radians))
        m2 == IndexSet(m1, 1, 2, FNeg(Sin(radians)))
        m3 == IndexSet(m2, 2, 1, Sin(radians))
    IN  IndexSet(m3, 2, 2, Cos(radians))

rotate_y(radians) ==
    LET m0 == identity(4)
        m1 == IndexSet(m0, 0, 0, Cos(radians))
        m2 == IndexSet(m1, 0, 2, Sin(radians))
        m3 == IndexSet(m2, 2, 0, FNeg(Sin(radians)))
    IN  IndexSet(m3, 2, 2, Cos(radians))

rotate_z(radians) ==
    LET m0 == identity(4)
        m1 == IndexSet(m0, 0, 0, Cos(radians))
        m2 == IndexSet(m1, 0, 1, FNeg(Sin(radians)))
        m3 == IndexSet(m2, 1, 0, Sin(radians))
    IN  IndexSet(m3, 1, 1, Cos(radians))

\* A variant of rotate that takes the product in the order z, y, x.
rotate_ZYX(radians_x, radians_y, radians_z) ==
    mul(mul(rotate_z(radians_z), rotate_y(radians_y)), rotate_x(radians_x))

rotate(radians_x, radians_y, radians_z) ==
    mul(mul(rotate_x(radians_x), rotate_y(radians_y)), rotate_z(radians_z))

---------------------------------------------------------------------------
(* Vectors (src/src/core/vec3.rs).  A Vec3(f64, f64, f64) is the tuple     *)
(* <<x, y, z>>.                                                            *)

\* Vec3::default(): derive(Default), every component 0.0.
Vec3Default == <<Zero, Zero, Zero>>

\* v.magnitude(): the absolute components added left to right.
magnitude(v) == FAdd(FAdd(FAbs(v[1]), FAbs(v[2])), FAbs(v[3]))

\* normalize without the test of the magnitude.
normalize_Unguarded(v) ==
    LET mag == magnitude(v) IN
    <<FDiv(v[1], mag), FDiv(v[2], mag), FDiv(v[3], mag)>>

\* v.normalize()
normalize(v) ==
    LET mag == magnitude(v) IN
    IF FEq(mag, Zero) THEN Vec3Default
    ELSE <<FDiv(v[1], mag), FDiv(v[2], mag), FDiv(v[3], mag)>>

\* a.cross(&b)
cross(a, b) ==
    << FSub(FMul(a[2], b[3]), FMul(a[3], b[2])),
       FSub(FMul(a[3], b[1]), FMul(a[1], b[3])),
       FSub(FMul(a[1], b[2]), FMul(a[2], b[1])) >>

\* -v
vec3_neg(v) == <<FNeg(v[1]), FNeg(v[2]), FNeg(v[3])>>

\* A Vec3 * Vec3 that multiplies component by component.
vec3_mul_Componentwise(a, b) ==
    <<FMul(a[1], b[1]), FMul(a[2], b[2]), FMul(a[3], b[3])>>

\* a * b for two Vec3
vec3_mul(a, b) == cross(a, b)

\* a == b for two Vec3, Colors or Points: derive(PartialEq).
TripleEq(a, b) == FEq(a[1], b[1]) /\ FEq(a[2], b[2]) /\ FEq(a[3], b[3])

---------------------------------------------------------------------------
(* Colors (src/src/core/color.rs).  A Color(f64, f64, f64) is the tuple    *)
(* <<r, g, b>>.                                                            *)

\* Color::default(): derive(Default), every component 0.0.
ColorDefault == <<Zero, Zero, Zero>>

\* f64 <.
FLt(a, b) == FLe(a, b) /\ ~FEq(a, b)

\* A clamp that tests the upper limit only.
FClamp_UpperOnly(v, min, max) == IF FLt(max, v) THEN max ELSE v

\* v.clamp(min, max) of f64: min if v < min, max if v > max, else v itself
\* (a NaN, which compares with nothing, is returned as it is).
FClamp(v, min, max) ==
    LET low == IF FLt(v, min) THEN min ELSE v
    IN  IF FLt(max, low) THEN max ELSE low

\* c.clamp()
clamp(c) == <<FClamp(c[1], Zero, One), FClamp(c[2], Zero, One),
              FClamp(c[3], Zero, One)>>

---------------------------------------------------------------------------
(* The canvas (src/src/core/canvas.rs).  A Canvas is the record of its     *)
(* fields width, height and pixels; the Vec<Color> pixels is a function    *)
(* from 0..len-1, so that offsets are those of the source.                 *)

\* pixels.len()
VecLen(v) == Cardinality(DOMAIN v)

\* A bounds check made on each coordinate instead of on the offset.
InBounds_PerCoordinate(cv, x, y) == x < cv.width /\ y < cv.height

\* The bounds check of self.pixels[y * self.width + x]: the index is below
\* pixels.len(); the access panics otherwise.
InBounds(cv, x, y) == y * cv.width + x < VecLen(cv.pixels)

\* Canvas::new(width, height): width * height pushes of Color::default().
canvas_new(width, height) ==
    [width  |-> width,
     height |-> height,
     pixels |-> [k \in 0..(width * height - 1) |-> ColorDefault]]

\* canvas.pixel_at(x, y), and canvas[(x, y)], when the index is in bounds.
pixel_at(cv, x, y) == cv.pixels[y * cv.width + x]

\* An assignment that also overwrites the next pixel of the Vec.
pixel_set_Smear(cv, x, y, c) ==
    LET k == y * cv.width + x IN
    [cv EXCEPT !.pixels = [j \in DOMAIN cv.pixels |->
                              IF j = k \/ j = k + 1 THEN c ELSE cv.pixels[j]]]

\* *canvas.pixel_at_mut(x, y) = c, and canvas[(x, y)] = c, when the index is
\* in bounds.
pixel_set(cv, x, y, c) == [cv EXCEPT !.pixels[y * cv.width + x] = c]

\* canvas.iter_pixels(), collected: the pixels in the order of the Vec.
iter_pixels(cv) == [k \in 1..VecLen(cv.pixels) |-> cv.pixels[k - 1]]

---------------------------------------------------------------------------
(* Inputs.                                                                 *)

SmallVals == {FromInt(k) : k \in (0 - MaxEntry)..MaxEntry}
PosVals == {FromInt(k) : k \in 0..MaxPos}

Matrices(R, C, S) == {new(R, C, a) : a \in [0..(R - 1) -> [0..(C - 1) -> S]]}

\* Square matrices handed to inverse: 0x0, 1x1, 2x2, and 3x3 (the smallest
\* size at which a non-singular matrix can have a pivot that becomes zero).
InverseInputs ==
    Matrices(0, 0, SmallVals) \cup Matrices(1, 1, SmallVals)
    \cup Matrices(2, 2, SmallVals) \cup Matrices(3, 3, PosVals)

\* Operand pairs of a product: square, non-square, with no inner dimension
\* (2x0 by 0x2), and a 3x3 with the identity.
MulInputs ==
    (Matrices(2, 2, SmallVals) \X Matrices(2, 2, PosVals))
    \cup (Matrices(2, 0, PosVals) \X Matrices(0, 2, PosVals))
    \cup (Matrices(2, 2, PosVals) \X Matrices(2, 3, PosVals))
    \cup (Matrices(1, 3, SmallVals) \X Matrices(3, 2, PosVals))
    \cup {<<M, identity(3)>> : M \in Matrices(3, 3, PosVals)}
    \cup {<<identity(3), M>> : M \in Matrices(3, 3, PosVals)}

\* Operand triples of a chained product of 2x2 matrices; the third is upper
\* triangular, which keeps the number of triples small.
ChainInputs ==
    Matrices(2, 2, PosVals) \X Matrices(2, 2, PosVals)
        \X {M \in Matrices(2, 2, PosVals) : M.rows[1][0] = Zero}

\* Matrices handed to transpose, one with no rows and one with no columns
\* among them.
TransposeInputs ==
    Matrices(2, 2, SmallVals) \cup Matrices(2, 3, SmallVals) \cup Matrices(3, 1, SmallVals)
    \cup Matrices(0, 3, SmallVals) \cup Matrices(3, 0, SmallVals)

IdentitySizes == 1..4

Coords == {FromInt(k) : k \in (0 - MaxCoord)..MaxCoord}

Points == Coords \X Coords \X Coords

\* The 4x4 matrices handed to transform: the builders' results, and matrices
\* whose last row is not [0, 0, 0, 1] (a transposed translation, a uniform fill).
TransformInputs ==
    {translate(t[1], t[2], t[3]) : t \in Points}
    \cup {scale(t[1], t[2], t[3]) : t \in Points}
    \cup {rotate(a[1], a[2], a[3]) : a \in Angles \X Angles \X Angles}
    \cup {transpose(translate(t[1], t[2], t[3])) : t \in Points}
    \cup {from(v, 4, 4) : v \in Coords}

\* The components of the vectors handed to normalize and to *: the integers
\* of Coords and the negative zero.
VecVals == Coords \cup {NegZero}

Vec3Inputs == VecVals \X VecVals \X VecVals

\* The components of the colors handed to clamp: the multiples k/2 of one
\* half with |k| <= MaxHalves (values below 0, in [0, 1] and above 1), and
\* the negative zero.
ChannelVals ==
    {IF k = 0 THEN Zero ELSE Norm(k, 2) : k \in (0 - MaxHalves)..MaxHalves}
    \cup {NegZero}

Colors == ChannelVals \X ChannelVals \X ChannelVals

\* The widths and heights handed to Canvas::new, and the coordinates handed to
\* the index operators: a coordinate may exceed every width and height.
CanvasDims == 0..MaxDim
CanvasCoords == 0..MaxDim

\* The colors written to a canvas: Color::default() and the grey of
\* test_canvas_index_mut.
Grey == <<Norm(1, 2), Norm(1, 2), Norm(1, 2)>>
CanvasColors == {ColorDefault, Grey}

---------------------------------------------------------------------------
(* The state machine: one call of the library.  Every operation is a pure  *)
(* function of its arguments over values with copy semantics; no state is  *)
(* carried from one call to the next, so a behaviour is a single call made *)
(* from the initial state, and Matrix::inverse steps through its loop.     *)

\* No matrix operand: a placeholder, the Matrix<0, 0>.
NoMatrix == new(0, 0, <<>>)
\* No inv_rows: the call is not inverse.
NoRows == <<>>
NoArgs == <<>>
\* Point::default()
NoPoint == <<Zero, Zero, Zero>>
\* No Canvas has been constructed: Canvas::default().
NoCanvas == [width |-> 0, height |-> 0, pixels |-> <<>>]

Init ==
    /\ op = "init"
    /\ lhs = NoMatrix
    /\ rhs = NoMatrix
    /\ third = NoMatrix
    /\ args = NoArgs
    /\ inv_rows = NoRows
    /\ p = 0
    /\ result = NoMatrix
    /\ pout = NoPoint
    /\ canvas = NoCanvas
    /\ writes = <<>>
    /\ cout = <<>>

\* Matrix::<T,T>::identity()
MatrixIdentity ==
    /\ op = "init"
    /\ \E T \in IdentitySizes :
           /\ op' = "identity"
           /\ lhs' = NoMatrix
           /\ rhs' = NoMatrix
           /\ third' = NoMatrix
           /\ args' = <<T>>
           /\ inv_rows' = NoRows
           /\ p' = 0
           /\ result' = identity(T)
           /\ pout' = NoPoint
           /\ UNCHANGED cvars

\* m.transpose()
MatrixTranspose ==
    /\ op = "init"
    /\ \E M \in TransposeInputs :
           /\ op' = "transpose"
           /\ lhs' = M
           /\ rhs' = NoMatrix
           /\ third' = NoMatrix
           /\ args' = NoArgs
           /\ inv_rows' = NoRows
           /\ p' = 0
           /\ result' = transpose(M)
           /\ pout' = NoPoint
           /\ UNCHANGED cvars

\* a * b
MatrixMul ==
    /\ op = "init"
    /\ \E ab \in MulInputs :
           /\ op' = "mul"
           /\ lhs' = ab[1]
           /\ rhs' = ab[2]
           /\ third' = NoMatrix
           /\ args' = NoArgs
           /\ inv_rows' = NoRows
           /\ p' = 0
           /\ result' = mul(ab[1], ab[2])
           /\ pout' = NoPoint
           /\ UNCHANGED cvars

\* a * b * c, which is (a * b) * c
MatrixMulChain ==
    /\ op = "init"
    /\ \E abc \in ChainInputs :
           /\ op' = "mul_chain"
           /\ lhs' = abc[1]
           /\ rhs' = abc[2]
           /\ third' = abc[3]
           /\ args' = NoArgs
           /\ inv_rows' = NoRows
           /\ p' = 0
           /\ result' = mul(mul(abc[1], abc[2]), abc[3])
           /\ pout' = NoPoint
           /\ UNCHANGED cvars

\* m.inverse(): entry, let mut inv_rows = self.rows.clone().
InverseCall ==
    /\ op = "init"
    /\ \E M \in InverseInputs :
           /\ op' = "inverse"
           /\ lhs' = M
           /\ rhs' = NoMatrix
           /\ third' = NoMatrix
           /\ args' = NoArgs
           /\ inv_rows' = M.rows
           /\ p' = 0
           /\ result' = NoMatrix
           /\ pout' = NoPoint
           /\ UNCHANGED cvars

\* m.inverse(): one iteration of for p in 0..T.
InversePivot ==
    /\ op = "inverse"
    /\ p < ArrayLen(inv_rows)
    /\ inv_rows' = PivotStep(inv_rows, p)
    /\ p' = p + 1
    /\ UNCHANGED <<op, lhs, rhs, third, args, result, pout>>
    /\ UNCHANGED cvars

\* m.inverse(): Matrix::new(inv_rows)
InverseReturn ==
    /\ op = "inverse"
    /\ p >= ArrayLen(inv_rows)
    /\ op' = "inverse_done"
    /\ result' = new(NRows(lhs), NCols(lhs), inv_rows)
    /\ UNCHANGED <<lhs, rhs, third, args, inv_rows, p, pout>>
    /\ UNCHANGED cvars

\* translate(x, y, z)
BuildTranslate ==
    /\ op = "init"
    /\ \E t \in Points :
           /\ op' = "translate"
           /\ lhs' = NoMatrix
           /\ rhs' = NoMatrix
           /\ third' = NoMatrix
           /\ args' = t
           /\ inv_rows' = NoRows
           /\ p' = 0
           /\ result' = translate(t[1], t[2], t[3])
           /\ pout' = NoPoint
           /\ UNCHANGED cvars

\* scale(x, y, z)
BuildScale ==
    /\ op = "init"
    /\ \E t \in Points :
           /\ op' = "scale"
           /\ lhs' = NoMatrix
           /\ rhs' = NoMatrix
           /\ third' = NoMatrix
           /\ args' = t
           /\ inv_rows' = NoRows
           /\ p' = 0
           /\ result' = scale(t[1], t[2], t[3])
           /\ pout' = NoPoint
           /\ UNCHANGED cvars

\* rotate_x(radians), rotate_y(radians), rotate_z(radians)
BuildRotateAxis ==
    /\ op = "init"
    /\ \E a \in Angles, axis \in {"rotate_x", "rotate_y", "rotate_z"} :
           /\ op' = axis
           /\ lhs' = NoMatrix
           /\ rhs' = NoMatrix
           /\ third' = NoMatrix
           /\ args' = <<a>>
           /\ inv_rows' = NoRows
           /\ p' = 0
           /\ result' = CASE axis = "rotate_x" -> rotate_x(a)
                          [] axis = "rotate_y" -> rotate_y(a)
                          [] axis = "rotate_z" -> rotate_z(a)
           /\ pout' = NoPoint
           /\ UNCHANGED cvars

\* rotate(radians_x, radians_y, radians_z)
BuildRotate ==
    /\ op = "init"
    /\ \E a \in Angles \X Angles \X Angles :
           /\ op' = "rotate"
           /\ lhs' = NoMatrix
           /\ rhs' = NoMatrix
           /\ third' = NoMatrix
           /\ args' = a
           /\ inv_rows' = NoRows
           /\ p' = 0
           /\ result' = rotate(a[1], a[2], a[3])
           /\ pout' = NoPoint
           /\ UNCHANGED cvars

\* point.transform(&m)
PointTransform ==
    /\ op = "init"
    /\ \E pt \in Points, M \in TransformInputs :
           /\ op' = "transform"
           /\ lhs' = M
           /\ rhs' = NoMatrix
           /\ third' = NoMatrix
           /\ args' = pt
           /\ inv_rows' = NoRows
           /\ p' = 0
           /\ result' = NoMatrix
           /\ pout' = transform(pt, M)
           /\ UNCHANGED cvars

\* v.normalize()
Vec3Normalize ==
    /\ op = "init"
    /\ \E v \in Vec3Inputs :
           /\ op' = "normalize"
           /\ lhs' = NoMatrix
           /\ rhs' = NoMatrix
           /\ third' = NoMatrix
           /\ args' = <<v>>
           /\ inv_rows' = NoRows
           /\ p' = 0
           /\ result' = NoMatrix
           /\ pout' = normalize(v)
           /\ UNCHANGED cvars

\* a * b for two Vec3
Vec3Mul ==
    /\ op = "init"
    /\ \E a \in Vec3Inputs, b \in Vec3Inputs :
           /\ op' = "vec3_mul"
           /\ lhs' = NoMatrix
           /\ rhs' = NoMatrix
           /\ third' = NoMatrix
           /\ args' = <<a, b>>
           /\ inv_rows' = NoRows
           /\ p' = 0
           /\ result' = NoMatrix
           /\ pout' = vec3_mul(a, b)
           /\ UNCHANGED cvars

\* c.clamp()
ColorClamp ==
    /\ op = "init"
    /\ \E c \in Colors :
           /\ op' = "clamp"
           /\ lhs' = NoMatrix
           /\ rhs' = NoMatrix
           /\ third' = NoMatrix
           /\ args' = <<c>>
           /\ inv_rows' = NoRows
           /\ p' = 0
           /\ result' = NoMatrix
           /\ pout' = clamp(c)
           /\ UNCHANGED cvars

\* test_translate_with_inverse: translation * translation.inverse()
TranslateWithInverse ==
    /\ op = "init"
    /\ \E t \in Points :
           LET translation == translate(t[1], t[2], t[3])
               inv == inverse(translation)
           IN  /\ op' = "translate_with_inverse"
               /\ lhs' = translation
               /\ rhs' = inv
               /\ third' = NoMatrix
               /\ args' = <<t>>
               /\ inv_rows' = NoRows
               /\ p' = 0
               /\ result' = mul(translation, inv)
               /\ pout' = NoPoint
               /\ UNCHANGED cvars

\* test_translate_with_inverse: v.transform(&transformation), for the
\* product just made.
TransformByProduct ==
    /\ op = "translate_with_inverse"
    /\ \E v \in Points :
           /\ op' = "transform_by_product"
           /\ args' = <<args[1], v>>
           /\ pout' = transform(v, result)
           /\ UNCHANGED <<lhs, rhs, third, inv_rows, p, result>>
           /\ UNCHANGED cvars

\* The positions at which a canvas exists and no access has panicked.
CanvasOps == {"canvas_new", "index", "index_mut", "iter_pixels"}

\* Canvas::new(width, height)
CanvasNew ==
    /\ op = "init"
    /\ \E w \in CanvasDims, h \in CanvasDims :
           /\ op' = "canvas_new"
           /\ args' = <<w, h>>
           /\ canvas' = canvas_new(w, h)
           /\ writes' = <<>>
           /\ cout' = <<>>
           /\ UNCHANGED <<lhs, rhs, third, inv_rows, p, result, pout>>

\* canvas[(x, y)]: the color of the cell, or a panic of the bounds check.
CanvasIndex ==
    /\ op \in CanvasOps
    /\ \E x \in CanvasCoords, y \in CanvasCoords :
           /\ args' = <<x, y>>
           /\ IF InBounds(canvas, x, y)
              THEN /\ op' = "index"
                   /\ cout' = <<pixel_at(canvas, x, y)>>
              ELSE /\ op' = "panic"
                   /\ cout' = <<>>
           /\ UNCHANGED <<canvas, writes>>
           /\ UNCHANGED <<lhs, rhs, third, inv_rows, p, result, pout>>

\* canvas[(x, y)] = c: the cell is assigned, or the bounds check panics.
CanvasIndexMut ==
    /\ op \in CanvasOps
    /\ Len(writes) < MaxWrites
    /\ \E x \in CanvasCoords, y \in CanvasCoords, c \in CanvasColors :
           /\ args' = <<x, y, c>>
           /\ cout' = <<>>
           /\ IF InBounds(canvas, x, y)
              THEN /\ op' = "index_mut"
                   /\ canvas' = pixel_set(canvas, x, y, c)
                   /\ writes' = Append(writes, <<x, y, c>>)
              ELSE /\ op' = "panic"
                   /\ UNCHANGED <<canvas, writes>>
           /\ UNCHANGED <<lhs, rhs, third, inv_rows, p, result, pout>>

\* canvas.iter_pixels()
CanvasIterPixels ==
    /\ op \in CanvasOps
    /\ op' = "iter_pixels"
    /\ args' = NoArgs
    /\ cout' = iter_pixels(canvas)
    /\ UNCHANGED <<canvas, writes>>
    /\ UNCHANGED <<lhs, rhs, third, inv_rows, p, result, pout>>

Next ==
    \/ MatrixIdentity
    \/ MatrixTranspose
    \/ MatrixMul
    \/ MatrixMulChain
    \/ InverseCall
    \/ InversePivot
    \/ InverseReturn
    \/ BuildTranslate
    \/ BuildScale
    \/ BuildRotateAxis
    \/ BuildRotate
    \/ PointTransform
    \/ Vec3Normalize
    \/ Vec3Mul
    \/ ColorClamp
    \/ TranslateWithInverse
    \/ TransformByProduct
    \/ CanvasNew
    \/ CanvasIndex
    \/ CanvasIndexMut
    \/ CanvasIterPixels

Spec == Init /\ [][Next]_vars

\* The calls of one part of the library each.
InverseNext == InverseCall \/ InversePivot \/ InverseReturn
SpecInverse == Init /\ [][InverseNext]_vars

MulNext == MatrixMul \/ MatrixIdentity
SpecMul == Init /\ [][MulNext]_vars

ChainNext == MatrixMulChain
SpecChain == Init /\ [][ChainNext]_vars

TransposeNext == MatrixTranspose
SpecTranspose == Init /\ [][TransposeNext]_vars

TransformNext ==
    BuildTranslate \/ BuildScale \/ BuildRotateAxis \/ BuildRotate \/ PointTransform
SpecTransform == Init /\ [][TransformNext]_vars

Vec3Next == Vec3Normalize \/ Vec3Mul
SpecVec3 == Init /\ [][Vec3Next]_vars

ColorNext == ColorClamp
SpecColor == Init /\ [][ColorNext]_vars

TranslateInverseNext == TranslateWithInverse \/ TransformByProduct
SpecTranslateInverse == Init /\ [][TranslateInverseNext]_vars

CanvasNext == CanvasNew \/ CanvasIndex \/ CanvasIndexMut \/ CanvasIterPixels
SpecCanvas == Init /\ [][CanvasNext]_vars

---------------------------------------------------------------------------
(* Properties of Matrix::inverse.                                          *)

\* The determinant of a 0x0, 1x1, 2x2 or 3x3 matrix of integers.
DetInt(M) ==
    LET e(r, c) == M.rows[r][c][1] IN
    CASE NRows(M) = 0 -> 1
      [] NRows(M) = 1 -> e(0, 0)
      [] NRows(M) = 2 -> e(0, 0) * e(1, 1) - e(0, 1) * e(1, 0)
      [] NRows(M) = 3 ->
            e(0, 0) * (e(1, 1) * e(2, 2) - e(1, 2) * e(2, 1))
          - e(0, 1) * (e(1, 0) * e(2, 2) - e(1, 2) * e(2, 0))
          + e(0, 2) * (e(1, 0) * e(2, 1) - e(1, 1) * e(2, 0))

\* inv_rows after the first q iterations of the loop on the matrix M.
RECURSIVE AfterSteps(_, _)
AfterSteps(M, q) ==
    IF q = 0 THEN M.rows ELSE PivotStep(AfterSteps(M, q - 1), q - 1)

\* Some pivot is zero at the step where it is used.
ZeroPivot(M) == \E q \in 0..(NRows(M) - 1) : IsZero(AfterSteps(M, q)[q][q])

\* Some cell of the array a of rows is Inf or NaN.
HasNonFinite(a) ==
    \E r \in DOMAIN a : \E c \in DOMAIN a[r] : ~IsFinite(a[r][c])

ScheduleStep(M, pv) ==
    LET I == 0..(ArrayLen(M) - 1)
        pivot == M[pv][pv]
        s2 == [i \in I |-> [j \in I |->
                 IF i # pv /\ j = pv THEN FDiv(FNeg(M[i][pv]), pivot) ELSE M[i][j]]]
        s3 == [i \in I |-> [j \in I |->
                 IF i # pv /\ j # pv
                 THEN FAdd(s2[i][j], FMul(s2[pv][j], s2[i][pv]))
                 ELSE s2[i][j]]]
        s4 == [i \in I |-> [j \in I |->
                 IF i = pv /\ j # pv THEN FDiv(s3[pv][j], pivot) ELSE s3[i][j]]]
    IN  [i \in I |-> [j \in I |->
            IF i = pv /\ j = pv THEN FDiv(One, pivot) ELSE s4[i][j]]]

\* C2: inverse starts from a copy of the matrix, applies the five-step schedule
\* for p = 0, 1, ..., T-1 in increasing order, one pivot index per iteration and
\* with no rows swapped, and returns the matrix so obtained.
C2_Schedule ==
    [][/\ (op = "init" /\ op' = "inverse") => (p' = 0 /\ inv_rows' = lhs'.rows)
       /\ (op = "inverse" /\ op' = "inverse")
            => /\ p < NRows(lhs)
               /\ p' = p + 1
               /\ lhs' = lhs
               /\ inv_rows' = ScheduleStep(inv_rows, p)
       /\ (op = "inverse" /\ op' = "inverse_done")
            => (p = NRows(lhs) /\ result' = new(NRows(lhs), NRows(lhs), inv_rows))]_vars

\* The loop of inverse has run two iterations on a 3x3 matrix with non-zero
\* entries around the diagonal, all pivots so far non-zero, and has changed a
\* cell outside the first two rows and columns.
C2_Witness ==
    /\ op = "inverse"
    /\ NRows(lhs) = 3
    /\ p = 2
    /\ ~IsZero(lhs.rows[0][1])
    /\ ~IsZero(lhs.rows[1][0])
    /\ ~IsZero(lhs.rows[1][2])
    /\ ~IsZero(lhs.rows[2][1])
    /\ ~HasNonFinite(inv_rows)
    /\ ~FEq(inv_rows[2][2], lhs.rows[2][2])

\* C3: inverse never reports an error or aborts: the loop stands at a pivot
\* index p <= T over a TxT matrix whatever the pivots were, the call returns a
\* TxT matrix after all T iterations, and when some pivot was zero at the step
\* where it was used, the returned matrix has a non-finite entry.
C3_ZeroPivotNonFinite ==
    /\ op = "inverse"
         => /\ p <= NRows(lhs)
            /\ ArrayLen(inv_rows) = NRows(lhs)
            /\ \A r \in DOMAIN inv_rows : ArrayLen(inv_rows[r]) = NCols(lhs)
    /\ op = "inverse_done"
         => /\ p = NRows(lhs)
            /\ NRows(result) = NRows(lhs)
            /\ NCols(result) = NCols(lhs)
            /\ ZeroPivot(lhs) => HasNonFinite(result.rows)

\* A non-singular 3x3 matrix whose second pivot becomes zero has been inverted.
C3_Witness ==
    /\ op = "inverse_done"
    /\ NRows(lhs) = 3
    /\ DetInt(lhs) # 0
    /\ ~IsZero(lhs.rows[0][0])
    /\ IsZero(AfterSteps(lhs, 1)[1][1])
    /\ HasNonFinite(result.rows)

---------------------------------------------------------------------------
(* Properties of the product, the identity and the transpose.              *)

IsSquare(M) == NRows(M) = NCols(M)

\* The sum over n = 0..k-1 of A[r][n] * B[n][c], the empty sum being 0.
RECURSIVE SumOfProducts(_, _, _, _, _)
SumOfProducts(A, B, r, c, k) ==
    IF k = 0 THEN Zero
    ELSE FAdd(SumOfProducts(A, B, r, c, k - 1),
              FMul(A.rows[r][k - 1], B.rows[k - 1][c]))

\* C4: the product of a Matrix<R,N> and a Matrix<N,C> is a Matrix<R,C> whose
\* cell (r, c) is the sum over n = 0..N-1 of A[r][n] * B[n][c], for square and
\* non-square shapes.
C4_MulCell ==
    op = "mul"
        => /\ NRows(result) = NRows(lhs)
           /\ NCols(result) = NCols(rhs)
           /\ \A r \in 0..(NRows(lhs) - 1) : \A c \in 0..(NCols(rhs) - 1) :
                  FEq(result.rows[r][c], SumOfProducts(lhs, rhs, r, c, NCols(lhs)))

\* A 2x2 matrix has been multiplied by a 2x3 matrix and a cell of the product
\* is the sum of two non-zero terms.
C4_Witness ==
    /\ op = "mul"
    /\ NRows(lhs) = 2
    /\ NCols(lhs) = 2
    /\ NCols(rhs) = 3
    /\ ~IsZero(lhs.rows[1][0])
    /\ ~IsZero(rhs.rows[0][2])
    /\ result.rows[1][2] = FromInt(2)

\* C5: identity::<T>() has 1 on the diagonal and 0 elsewhere, and for every
\* square matrix M of size T, M x identity == M and identity x M == M.
C5_MulIdentity ==
    /\ op = "identity"
         => /\ NRows(result) = args[1]
            /\ NCols(result) = args[1]
            /\ \A r \in 0..(args[1] - 1) : \A c \in 0..(args[1] - 1) :
                   result.rows[r][c] = IF r = c THEN One ELSE Zero
    /\ (op = "mul" /\ IsSquare(lhs) /\ rhs = identity(NRows(lhs)))
         => MatEq(result, lhs)
    /\ (op = "mul" /\ IsSquare(rhs) /\ lhs = identity(NRows(rhs)))
         => MatEq(result, rhs)

\* A 3x3 matrix that is not diagonal has been multiplied by the identity.
C5_Witness ==
    /\ op = "mul"
    /\ NRows(lhs) = 3
    /\ rhs = identity(3)
    /\ ~IsZero(lhs.rows[0][1])
    /\ ~IsZero(lhs.rows[2][0])
    /\ IsZero(lhs.rows[1][1])

C7_Transpose ==
    op = "transpose"
        => /\ NRows(result) = NCols(lhs)
           /\ NCols(result) = NRows(lhs)
           /\ \A r \in 0..(NRows(lhs) - 1) : \A c \in 0..(NCols(lhs) - 1) :
                  result.rows[c][r] = lhs.rows[r][c]
           /\ MatEq(transpose(result), lhs)

\* A 2x3 matrix with different entries across its rows has been transposed.
C7_Witness ==
    /\ op = "transpose"
    /\ NRows(lhs) = 2
    /\ NCols(lhs) = 3
    /\ ~FEq(lhs.rows[0][1], lhs.rows[1][0])
    /\ ~FEq(lhs.rows[0][2], lhs.rows[1][2])
    /\ ~FEq(lhs.rows[0][0], lhs.rows[0][2])

---------------------------------------------------------------------------
(* Properties of transform and of the transform builders.                  *)

\* Row r of M times the column [x, y, z, 1] of the point pt.
RowTimesPoint(M, r, pt) ==
    FAdd(FAdd(FAdd(FMul(M.rows[r][0], pt[1]), FMul(M.rows[r][1], pt[2])),
              FMul(M.rows[r][2], pt[3])),
         FMul(M.rows[r][3], One))

\* C8: for every point (x, y, z) and every 4x4 matrix M, whatever its last
\* row, transform returns the point made of the first three entries of
\* M x [x, y, z, 1]^T, with no division by the fourth entry.
C8_TransformNoDivide ==
    op = "transform"
        => \A i \in 1..3 : FEq(pout[i], RowTimesPoint(lhs, i - 1, args))

\* A point has been transformed by a matrix whose last row is not [0, 0, 0, 1]
\* and whose product has a fourth entry other than 0 and 1.
C8_Witness ==
    /\ op = "transform"
    /\ lhs.rows[3] # identity(4).rows[3]
    /\ ~IsZero(RowTimesPoint(lhs, 3, args))
    /\ ~FEq(RowTimesPoint(lhs, 3, args), One)
    /\ ~IsZero(pout[1])
    /\ ~PointEq(pout, args)

\* C9: translate(x, y, z) is the 4x4 identity with entries (0,3), (1,3), (2,3)
\* set to x, y, z and nothing else changed, and transforming the point
\* (a, b, c) by it gives exactly the point (a + x, b + y, c + z).
C9_Translate ==
    /\ op = "translate"
         => /\ NRows(result) = 4
            /\ NCols(result) = 4
            /\ \A r \in 0..3 : \A c \in 0..3 :
                   result.rows[r][c] = IF c = 3 /\ r < 3 THEN args[r + 1]
                                  ELSE IF r = c THEN One ELSE Zero
    /\ op = "transform"
         => \A t \in Points :
                lhs = translate(t[1], t[2], t[3])
                    => PointEq(pout, <<FAdd(args[1], t[1]),
                                       FAdd(args[2], t[2]),
                                       FAdd(args[3], t[3])>>)

\* A point with non-zero coordinates has been transformed by a translation
\* with non-zero factors.
C9_Witness ==
    /\ op = "transform"
    /\ \E t \in Points :
           /\ lhs = translate(t[1], t[2], t[3])
           /\ \A i \in 1..3 : ~IsZero(t[i]) /\ ~IsZero(args[i])
           /\ ~FEq(t[1], t[2])
    /\ ~PointEq(pout, args)

Commute(A, B) == MatEq(mul(A, B), mul(B, A))

\* C10: rotate(rx, ry, rz) is the product rotate_x(rx) x rotate_y(ry) x
\* rotate_z(rz) in that order; transforming a point by it applies the z
\* rotation first, then y, then x; and when no two of the three rotations
\* commute, it differs from the product taken in each of the other five orders.
C10_RotateOrder ==
    op = "rotate"
        => LET X == rotate_x(args[1])
               Y == rotate_y(args[2])
               Z == rotate_z(args[3])
           IN  /\ result = mul(mul(X, Y), Z)
               /\ \A pt \in Points :
                      PointEq(transform(pt, result),
                              transform(transform(transform(pt, Z), Y), X))
               /\ (~Commute(X, Y) /\ ~Commute(Y, Z) /\ ~Commute(X, Z))
                    => /\ ~MatEq(result, mul(mul(X, Z), Y))
                       /\ ~MatEq(result, mul(mul(Y, X), Z))
                       /\ ~MatEq(result, mul(mul(Y, Z), X))
                       /\ ~MatEq(result, mul(mul(Z, X), Y))
                       /\ ~MatEq(result, mul(mul(Z, Y), X))

\* rotate has been called with three rotations no two of which commute, one of
\* them by the angle 0.6.acos(), which is not a multiple of a quarter turn.
C10_Witness ==
    /\ op = "rotate"
    /\ args[1] = 4
    /\ ~Commute(rotate_x(args[1]), rotate_y(args[2]))
    /\ ~Commute(rotate_y(args[2]), rotate_z(args[3]))
    /\ ~Commute(rotate_x(args[1]), rotate_z(args[3]))

---------------------------------------------------------------------------
(* Properties of Vec3.                                                     *)

\* The epsilon of test_normalize_magnitude, 1e-6.
NormalizeEpsilonDen == 1000000

\* The L1 norm of a vector of finite components, computed over the integers:
\* |x| + |y| + |z| as one fraction.
L1Norm(v) ==
    LET dx == Abs(v[1][2])
        dy == Abs(v[2][2])
        dz == Abs(v[3][2])
        num == Abs(v[1][1]) * dy * dz + Abs(v[2][1]) * dx * dz
               + Abs(v[3][1]) * dx * dy
    IN  IF num = 0 THEN Zero ELSE Norm(num, dx * dy * dz)

\* C11: magnitude is the L1 norm; for every vector whose magnitude is not
\* zero, the magnitude of v.normalize() is 1 within epsilon; for a vector of
\* magnitude zero, normalize returns Vec3::default(), the zero vector, which no
\* division produced (0.0 / 0.0 is NaN).
C11_Normalize ==
    op = "normalize" =>
        LET v == args[1] IN
        /\ magnitude(v) = L1Norm(v)
        /\ magnitude(pout) = L1Norm(pout)
        /\ ~IsZero(magnitude(v)) =>
               FAbsDiffEq(magnitude(pout), One, <<1, NormalizeEpsilonDen>>)
        /\ IsZero(magnitude(v)) => pout = Vec3Default

\* A vector with components of both signs is normalized: every component is
\* divided by the magnitude 2.
C11_Witness ==
    /\ op = "normalize"
    /\ args[1] = <<FromInt(-1), One, NegZero>>
    /\ pout = <<<<-1, 2>>, <<1, 2>>, NegZero>>

\* C12: Vec3 * Vec3 is the cross product, and a * b == -(b * a) component
\* for component.
C12_CrossAntiCommutative ==
    op = "vec3_mul" =>
        LET a == args[1]
            b == args[2]
            n(v, i) == v[i][1]
        IN  /\ FEq(pout[1], FromInt(n(a, 2) * n(b, 3) - n(a, 3) * n(b, 2)))
            /\ FEq(pout[2], FromInt(n(a, 3) * n(b, 1) - n(a, 1) * n(b, 3)))
            /\ FEq(pout[3], FromInt(n(a, 1) * n(b, 2) - n(a, 2) * n(b, 1)))
            /\ TripleEq(pout, vec3_neg(vec3_mul(b, a)))

\* Two vectors that are not parallel are multiplied: the product is not zero.
C12_Witness ==
    /\ op = "vec3_mul"
    /\ args[1] = <<One, Zero, FromInt(-1)>>
    /\ args[2] = <<Zero, One, One>>
    /\ pout = <<One, FromInt(-1), One>>

---------------------------------------------------------------------------
(* Properties of Color.                                                    *)

\* C13: every component of c.clamp() lies in [0, 1]; a component already in
\* [0, 1] is returned unchanged, one below 0 becomes 0 and one above 1
\* becomes 1; clamping the clamped color again changes nothing.
C13_Clamp ==
    op = "clamp" =>
        /\ \A i \in 1..3 :
               LET x == args[1][i]
                   y == pout[i]
               IN  /\ FLe(Zero, y) /\ FLe(y, One)
                   /\ (FLe(Zero, x) /\ FLe(x, One)) => y = x
                   /\ FLt(x, Zero) => y = Zero
                   /\ FLt(One, x) => y = One
        /\ clamp(pout) = pout

\* A color with one component above 1, one inside [0, 1] and one below 0 is
\* clamped, as in the example of the documentation of clamp.
C13_Witness ==
    /\ op = "clamp"
    /\ args[1] = <<<<3, 2>>, <<1, 2>>, FromInt(-1)>>
    /\ pout = <<One, <<1, 2>>, Zero>>

---------------------------------------------------------------------------
(* Properties of a translation and its inverse.                            *)

\* C14: for T = translate(x, y, z), every pivot of the inversion of T is 1,
\* T.inverse() is == translate(-x, -y, -z), the product T x T.inverse() is ==
\* the identity, and a point transformed by the product is == the point.
C14_TranslateInverse ==
    /\ op = "translate_with_inverse" =>
           LET t == args[1] IN
           /\ \A q \in 0..3 : AfterSteps(lhs, q)[q][q] = One
           /\ MatEq(rhs, translate(FNeg(t[1]), FNeg(t[2]), FNeg(t[3])))
           /\ MatEq(result, identity(4))
    /\ op = "transform_by_product" =>
           /\ MatEq(result, identity(4))
           /\ PointEq(pout, args[2])

\* A translation that moves along all three axes is inverted, and a point
\* with three non-zero coordinates is transformed by the product.
C14_Witness ==
    /\ op = "transform_by_product"
    /\ args[1] = <<One, FromInt(-1), One>>
    /\ args[2] = <<FromInt(-1), One, One>>
    /\ Index(rhs, 0, 3) = FromInt(-1)
    /\ Index(rhs, 1, 3) = One
    /\ pout = args[2]

---------------------------------------------------------------------------
(* Properties of the canvas.                                               *)

\* The color last written to (x, y) in a history of writes, or
\* Color::default() if (x, y) was never written.
RECURSIVE LastWrite(_, _, _)
LastWrite(log, x, y) ==
    IF log = <<>> THEN ColorDefault
    ELSE LET last == log[Len(log)] IN
         IF last[1] = x /\ last[2] = y THEN last[3]
         ELSE LastWrite(SubSeq(log, 1, Len(log) - 1), x, y)

\* Every write made so far had x < width and y < height.
InRangeWrites ==
    \A i \in 1..Len(writes) :
        writes[i][1] < canvas.width /\ writes[i][2] < canvas.height

\* After Canvas::new(w, h) and writes with x < w and y < h: there are w * h
\* pixels, the cell (x, y) holds the color last written to (x, y) or
\* Color::default(), canvas[(x, y)] returns it, and iter_pixels yields it at
\* position y * w + x of w * h colors.
C15_Cells ==
    (op \in CanvasOps /\ InRangeWrites) =>
        LET w == canvas.width
            h == canvas.height
        IN  /\ VecLen(canvas.pixels) = w * h
            /\ \A x \in 0..(w - 1), y \in 0..(h - 1) :
                   pixel_at(canvas, x, y) = LastWrite(writes, x, y)
            /\ (op = "index" /\ args[1] < w /\ args[2] < h) =>
                   cout = <<LastWrite(writes, args[1], args[2])>>
            /\ op = "iter_pixels" =>
                   /\ Len(cout) = w * h
                   /\ \A x \in 0..(w - 1), y \in 0..(h - 1) :
                          cout[y * w + x + 1] = LastWrite(writes, x, y)

\* A write canvas[(x, y)] = c with x < width and y < height sets the cell
\* (x, y) to c and leaves width, height and every other cell as they were.
C15_WriteFrame ==
    (op' = "index_mut" /\ args'[1] < canvas.width /\ args'[2] < canvas.height) =>
        LET x == args'[1]
            y == args'[2]
        IN  /\ canvas'.width = canvas.width
            /\ canvas'.height = canvas.height
            /\ DOMAIN canvas'.pixels = DOMAIN canvas.pixels
            /\ pixel_at(canvas', x, y) = args'[3]
            /\ \A k \in DOMAIN canvas.pixels :
                   k # y * canvas.width + x => canvas'.pixels[k] = canvas.pixels[k]
            /\ \A x2 \in 0..(canvas.width - 1), y2 \in 0..(canvas.height - 1) :
                   (x2 # x \/ y2 # y) =>
                       pixel_at(canvas', x2, y2) = pixel_at(canvas, x2, y2)

\* C15: after Canvas::new(w, h) and any writes with x < w and y < h, a read of
\* (x, y) returns the color last written there, or Color::default(); each
\* write changes one cell and leaves width, height and the other cells
\* unchanged; iter_pixels yields w * h cells, cell (x, y) at position y*w + x.
C15_Canvas == []C15_Cells /\ [][C15_WriteFrame]_vars

\* A cell of the second row is written twice with different colors and then
\* read: the read returns the second color.
C15_Witness ==
    /\ op = "index"
    /\ canvas.width = 2
    /\ canvas.height = 2
    /\ writes = << <<0, 1, ColorDefault>>, <<0, 1, Grey>> >>
    /\ args = <<0, 1>>
    /\ cout = <<Grey>>

\* An access canvas[(x, y)] panics exactly when y * width + x >= width *
\* height; one with x >= width that does not panic reads, or overwrites and
\* leaves all others, the cell (x mod width, y + x div width) of a later row.
C16_Access ==
    op' \in {"index", "index_mut", "panic"} =>
        LET x == args'[1]
            y == args'[2]
            w == canvas.width
            h == canvas.height
        IN  /\ (op' = "panic") <=> (y * w + x >= w * h)
            /\ op' = "panic" => canvas' = canvas
            /\ (op' # "panic" /\ x >= w) =>
                   LET ax == x % w
                       ay == y + (x \div w)
                   IN  /\ ax < w
                       /\ y < ay
                       /\ ay < h
                       /\ op' = "index" =>
                              /\ cout' = <<pixel_at(canvas, ax, ay)>>
                              /\ canvas' = canvas
                       /\ op' = "index_mut" =>
                              /\ pixel_at(canvas', ax, ay) = args'[3]
                              /\ \A x2 \in 0..(w - 1), y2 \in 0..(h - 1) :
                                     (x2 # ax \/ y2 # ay) =>
                                         pixel_at(canvas', x2, y2)
                                             = pixel_at(canvas, x2, y2)

\* C16: canvas indexing checks the linear offset only: an access fails exactly
\* when y * width + x >= width * height, and an access with x >= width whose
\* offset is in range reads or overwrites the cell (x mod width, y + x div
\* width) of a later row.
C16_OffsetOnly == [][C16_Access]_vars

\* On a 2 x 2 canvas, canvas[(2, 0)] = grey did not panic: the cell (0, 1) of
\* the second row is grey, and no write was made to (0, 1).
C16_Witness ==
    /\ op = "index_mut"
    /\ canvas.width = 2
    /\ canvas.height = 2
    /\ args = <<2, 0, Grey>>
    /\ writes = << <<2, 0, Grey>> >>
    /\ pixel_at(canvas, 0, 1) = Grey

=============================================================================
